---- MODULE Spec2Model ----
(***************************************************************************)
(* A model of camel's workforce supervisor (InternalWorkforce): one        *)
(* supervisor with an initial task, its leaf workers, and the shared task  *)
(* channel.  Task ids are sequences of naturals: <<0>> is "0", <<0,1>> is  *)
(* "0.1".  Workforce ids are strings, as in the code.                      *)
(*                                                                         *)
(* Three more parts stand beside it, each with its own specification:      *)
(* the Task objects with their tree and states (SpecTask), a TaskManager   *)
(* over Task objects (SpecTM), and SingleAgentWorker._process_task         *)
(* (SpecWorker).  Each specification keeps the other parts idle.           *)
(***************************************************************************)
EXTENDS Integers, Sequences, FiniteSets, TLC

\* ------------------------------------------------------------------ bounds
\* largest number of subtasks one oracle decomposition yields
MaxSub == 2
\* longest task id (nesting depth) a worker may still report FAILED for
MaxDepth == 4

\* the calls of _process_task in a run
MaxCalls == 3

\* the Task objects made in a run
MaxTasks == 3

\* the longest list of tasks passed to add_tasks
MaxBatch == 2

\* ------------------------------------------------------------ constants
\* the initial task of the supervisor, Task(id="0")
RootId == <<0>>
\* initial_task is None
NoTask == <<>>
\* the supervisor's workforce_id
WorkforceId == "0"
\* another publisher that shares the channel, and its task
OtherPublisher == "other"
OtherTask == <<9>>
\* the rosters the supervisor may be constructed with (worker ids, in order)
InitRosters == {<<"1", "2", "3">>, <<"2", "3">>}

VARIABLES
    initial_task,     \* RootId or NoTask
    workforces,       \* the roster: sequence of worker ids
    wrun,             \* wrun[i]: running flag of the i-th worker of the roster
    wpc,              \* wpc[i]: "created" | "waiting" | "finished"
    running,          \* the supervisor's running flag
    pending_packets,  \* the deque, as a sequence of task ids
    packet,           \* task id -> the Packet object made for it
    task_dict,        \* the ids registered in the channel (_task_dict keys)
    subtasks,         \* task id -> task.subtasks (ids)
    composed,         \* the tasks on which compose() was called
    pc,               \* where listening() is
    error,            \* the exception that ended listening(), or "none"
    dec,              \* the locals of a suspended decompose_task_to_packets
    sent,             \* history: ids passed to send_task by the supervisor
    acked,            \* history: ids returned CLOSED by the supervisor
    failed_seen,      \* history: ids the supervisor got back FAILED
    \* Task objects and a TaskManager (camel/tasks/task.py)
    tid,              \* tid[o]: the id of Task object o, NoId before it is made
    tsubs,            \* tsubs[o]: o.subtasks, a sequence of objects
    tparent,          \* tparent[o]: o.parent, NoObj for None
    tstate,           \* tstate[o]: o.state
    tresult,          \* tresult[o]: o.result
    tm_tasks,         \* TaskManager.tasks, a sequence of objects
    tm_map,           \* TaskManager.task_map: id -> object
    last,             \* history: the last call made and how it ended
    \* a SingleAgentWorker
    calls             \* history: the _process_task calls made, with outcomes

\* the supervisor, its workers and the channel
wfvars == <<initial_task, workforces, wrun, wpc, running, pending_packets,
            packet, task_dict, subtasks, composed, pc, error, dec, sent,
            acked, failed_seen>>

\* the Task objects and the TaskManager
taskvars == <<tid, tsubs, tparent, tstate, tresult, tm_tasks, tm_map, last>>

\* the SingleAgentWorker
workervars == <<calls>>

vars == <<wfvars, taskvars, workervars>>

NoDec == [task |-> NoTask, subs |-> <<>>, k |-> 0, packet_lst |-> <<>>,
          dependencies |-> <<>>]

\* ------------------------------------------------------------- helpers
SeqToSet(s) == {s[i] : i \in 1..Len(s)}


\* task.subtasks, [] until the task is decomposed
Subs(sm, id) == IF id \in DOMAIN sm THEN sm[id] ELSE <<>>

\* the ids parse_response gives the n subtasks of task id: "{id}.{i}"
SubtaskIds(id, n) == [i \in 1..n |-> Append(id, i - 1)]

\* the ids the mock assign_task draws from: random.choice(['1', '2', '3'])
assign_task == {"1", "2", "3"}

\* the workforce_id create_workforce_for_task gives the new LeafWorkforce
NewWorkforceId(wfs) == ToString(Len(wfs) + 1)

\* Packet(subtask, self.workforce_id, assign_id, list(dependencies))
Packet(assign_id, dependencies) ==
    [publisher_id |-> WorkforceId, assignee_id |-> assign_id,
     dependencies |-> dependencies, status |-> "ASSIGNED"]

\* Packet(initial_task, workforce_id, workforce_id, None, FAILED);
\* the dependencies None is written <<>>
InitialPacket ==
    [publisher_id |-> WorkforceId, assignee_id |-> WorkforceId,
     dependencies |-> <<>>, status |-> "FAILED"]

\* the packets share one dependencies list: the append shows in all of them
DepsAppendShared(pk, lst, sid) ==
    [id \in DOMAIN pk |->
        IF id \in SeqToSet(lst)
        THEN [pk[id] EXCEPT !.dependencies = Append(@, sid)]
        ELSE pk[id]]

\* dependencies.append(subtask.id) after the packets in lst were built:
\* each packet holds its own copy of the list, so none of them changes
DepsAppend(pk, lst, sid) == pk

\* the replacements pushed one by one, without reversed()
ExtendLeftNoReverse(pp, packets) ==
    [i \in 1..Len(packets) |-> packets[Len(packets) + 1 - i]] \o pp

\* pending_packets.extendleft(reversed(packets))
ExtendLeft(pp, packets) == packets \o pp

\* ------------------------------------------------------------- channel
\* The state a handler of the supervisor works on, threaded through the
\* calls it makes.  err # "none": an exception is propagating.
Cur == [pp |-> pending_packets, pk |-> packet, ch |-> task_dict,
        comp |-> composed, err |-> error, sent |-> sent, acked |-> acked]

\* TaskChannel.remove_task: deletes the entry; a missing entry is an error
remove_task(st, id) ==
    IF st.err # "none" THEN st
    ELSE IF id \in st.ch THEN [st EXCEPT !.ch = @ \ {id}]
    ELSE [st EXCEPT !.err = "KeyError"]

\* TaskChannel.send_task: registers the packet under its task id; an id
\* already registered is an error
send_task(st, id) ==
    IF st.err # "none" THEN st
    ELSE IF id \in st.ch
         THEN [st EXCEPT !.err = "DuplicateTask", !.sent = Append(@, id)]
    ELSE [st EXCEPT !.ch = @ \cup {id}, !.sent = Append(@, id)]

\* TaskChannel.return_task(task_id, CLOSED) by the supervisor
return_task(st, id, status) ==
    IF st.err # "none" THEN st
    ELSE IF id \notin st.ch THEN [st EXCEPT !.err = "KeyError"]
    ELSE [st EXCEPT !.pk[id].status = status,
                    !.acked = IF status = "CLOSED" THEN Append(@, id) ELSE @]

\* the packets get_returned_task_by_publisher may hand to publisher p
Returned(p) ==
    {id \in task_dict : /\ packet[id].publisher_id = p
                        /\ packet[id].status \in {"COMPLETED", "FAILED"}}

\* ---------------------------------------------------------- supervisor
\* the last packet of the deque instead of the first
NextPacketLast(pp) == pp[Len(pp)]

\* next_packet = self.pending_packets[0]
NextPacket(pp) == Head(pp)

\* the returned packet is left in the queue
popleft_none(pp) == pp

\* self.pending_packets.popleft()
popleft(pp) == Tail(pp)

\* the failed packet's entry is left in the channel
RemoveFailedSkip(st, fin) == st

\* await self.channel.remove_task(finished_task.task.id)
RemoveFailed(st, fin) == remove_task(st, fin)

\* the acknowledgement left out
CloseFinishedSkip(st, fin) == st

\* await self.channel.return_task(finished_task.task.id, CLOSED)
CloseFinished(st, fin) == return_task(st, fin, "CLOSED")

\* the composed subtasks left in the channel
delete_composed_subtask_none(st, subs) == st

RECURSIVE delete_composed_subtask(_, _)
delete_composed_subtask(st, subs) ==
    IF subs = <<>> THEN st
    ELSE delete_composed_subtask(remove_task(st, Head(subs)), Tail(subs))

send_packet(st, sm) ==
    IF st.err # "none" THEN st
    ELSE IF st.pp = <<>> THEN [st EXCEPT !.err = "IndexError"]
    ELSE LET next_packet == NextPacket(st.pp) IN
         IF st.pk[next_packet].status = "FAILED"
         THEN send_task(
                delete_composed_subtask(
                  [st EXCEPT !.comp = @ \cup {next_packet},
                             !.pk[next_packet].status = "COMPLETED"],
                  Subs(sm, next_packet)),
                next_packet)
         ELSE send_task(st, next_packet)

\* the children are left running
stop_self_only(wr) == wr

\* InternalWorkforce.stop on the children: every running flag goes false
stop(wr) == [i \in DOMAIN wr |-> FALSE]

\* the packets of a non-failure decomposition into ids subs, assigned by asg
RECURSIVE NewPackets(_, _, _, _)
NewPackets(pk, subs, asg, k) ==
    IF k > Len(subs) THEN pk
    ELSE NewPackets(
           DepsAppend(pk @@ (subs[k] :> Packet(asg[k], SubSeq(subs, 1, k - 1))),
                      SubSeq(subs, 1, k), subs[k]),
           subs, asg, k + 1)

\* the loop goes on although stop() was called
LoopTestPendingOnly(run, pp) == pp # <<>>

\* the loop goes on although nothing is pending
LoopTestRunningOnly(run, pp) == run

\* while self.running and self.pending_packets
LoopTest(run, pp) == run /\ pp # <<>>

\* what a handler leaves behind: its effects, then the while test of
\* listening (brk: the handler ran the break), stop() and the return
Commit(st, brk) ==
    /\ pending_packets' = st.pp
    /\ packet' = st.pk
    /\ task_dict' = st.ch
    /\ composed' = st.comp
    /\ error' = st.err
    /\ sent' = st.sent
    /\ acked' = st.acked
    /\ IF st.err # "none"
       THEN pc' = "error" /\ UNCHANGED <<running, wrun>>
       ELSE IF ~brk /\ LoopTest(running, st.pp)
       THEN pc' = "wait" /\ UNCHANGED <<running, wrun>>
       ELSE pc' = "done" /\ running' = FALSE /\ wrun' = stop(wrun)

\* listening(), up to the first wait: the initial decomposition
ListeningInit ==
    /\ pc = "listening"
    /\ IF initial_task = NoTask
       THEN /\ Commit(Cur, FALSE)
            /\ UNCHANGED subtasks
       ELSE \E n \in 0..MaxSub : \E asg \in [1..n -> assign_task] :
            LET subs == SubtaskIds(initial_task, n)
                st1 == [Cur EXCEPT !.pk = NewPackets(@, subs, asg, 1),
                                   !.pp = @ \o subs]
                st2 == send_packet(st1, subtasks)
                st3 == IF st2.err # "none" THEN st2
                       ELSE [st2 EXCEPT
                               !.pk = @ @@ (initial_task :> InitialPacket),
                               !.pp = Append(@, initial_task)]
            IN  /\ subtasks' = (initial_task :> subs) @@ subtasks
                /\ Commit(st3, FALSE)
    /\ UNCHANGED <<initial_task, workforces, wpc, dec, failed_seen>>
    /\ UNCHANGED <<taskvars, workervars>>

\* a COMPLETED packet comes back
HandleCompleted ==
    /\ pc = "wait"
    /\ \E fin \in Returned(WorkforceId) :
        /\ packet[fin].status = "COMPLETED"
        /\ LET st1 == CloseFinished([Cur EXCEPT !.pp = popleft(@)], fin)
           IN  IF st1.pp = <<>> /\ st1.err = "none"
               THEN Commit(st1, TRUE)
               ELSE Commit(send_packet(st1, subtasks), FALSE)
    /\ UNCHANGED <<initial_task, workforces, wpc, subtasks, dec, failed_seen>>
    /\ UNCHANGED <<taskvars, workervars>>

\* create_workforce_for_task up to its await: the new worker is in the
\* roster and its start() is scheduled
CreateWorkforce(wfs) == Append(wfs, NewWorkforceId(wfs))

\* the end of decompose_task_to_packets(failed=True) and of the FAILED
\* branch: the packets go to the head of the queue, the head is sent
FinishRecovery(st, lst, sm) ==
    send_packet([st EXCEPT !.pp = ExtendLeft(@, lst)], sm)

\* a FAILED packet comes back: it is removed and its task decomposed again
HandleFailed ==
    /\ pc = "wait"
    /\ \E fin \in Returned(WorkforceId) : \E n \in 0..MaxSub :
        /\ packet[fin].status = "FAILED"
        /\ failed_seen' = failed_seen \cup {fin}
        /\ LET st1 == RemoveFailed(Cur, fin)
               subs == SubtaskIds(fin, n)
           IN  /\ subtasks' = (fin :> subs) @@ subtasks
               /\ IF n = 0 \/ st1.err # "none"
                  THEN /\ Commit(FinishRecovery(st1, <<>>, subtasks'), FALSE)
                       /\ UNCHANGED <<workforces, wpc, dec>>
                  ELSE /\ workforces' = CreateWorkforce(workforces)
                       /\ wpc' = Append(wpc, "created")
                       /\ wrun' = Append(wrun, FALSE)
                       /\ dec' = [task |-> fin, subs |-> subs, k |-> 1,
                                  packet_lst |-> <<>>, dependencies |-> <<>>]
                       /\ pc' = "creating"
                       /\ task_dict' = st1.ch
                       /\ UNCHANGED <<running, pending_packets, packet,
                                      composed, error, sent, acked>>
    /\ UNCHANGED initial_task
    /\ UNCHANGED <<taskvars, workervars>>

\* the start() of the worker made last has returned, so gather() and
\* create_workforce_for_task return: the packet of subtask k is built
CreateReturn ==
    /\ pc = "creating"
    /\ wpc[Len(workforces)] = "finished"
    /\ LET sid == dec.subs[dec.k]
           lst == Append(dec.packet_lst, sid)
           pk1 == DepsAppend(
                    packet @@ (sid :> Packet(workforces[Len(workforces)],
                                             dec.dependencies)),
                    lst, sid)
       IN  IF dec.k < Len(dec.subs)
           THEN /\ workforces' = CreateWorkforce(workforces)
                /\ wpc' = Append(wpc, "created")
                /\ wrun' = Append(wrun, FALSE)
                /\ dec' = [dec EXCEPT !.k = @ + 1, !.packet_lst = lst,
                                      !.dependencies = Append(@, sid)]
                /\ packet' = pk1
                /\ UNCHANGED <<running, pending_packets, task_dict, composed,
                               pc, error, sent, acked>>
           ELSE /\ Commit(FinishRecovery([Cur EXCEPT !.pk = pk1], lst,
                                         subtasks), FALSE)
                /\ dec' = NoDec
                /\ UNCHANGED <<workforces, wpc>>
    /\ UNCHANGED <<initial_task, subtasks, failed_seen>>
    /\ UNCHANGED <<taskvars, workervars>>

\* ------------------------------------------------------------- workers
\* LeafWorkforce.start of a worker made by create_workforce_for_task
WorkerStart(i) ==
    /\ wpc[i] = "created"
    /\ wpc' = [wpc EXCEPT ![i] = "waiting"]
    /\ wrun' = [wrun EXCEPT ![i] = TRUE]
    /\ UNCHANGED <<initial_task, workforces, running, pending_packets, packet,
                   task_dict, subtasks, composed, pc, error, dec, sent, acked,
                   failed_seen>>
    /\ UNCHANGED <<taskvars, workervars>>

\* one turn of a worker's run loop: it takes a packet assigned to its id,
\* processes the task and returns it; then it tests its running flag
WorkerProcess(i) ==
    /\ wpc[i] = "waiting"
    /\ \E id \in task_dict : \E res \in {"COMPLETED", "FAILED"} :
        /\ packet[id].assignee_id = workforces[i]
        /\ packet[id].status = "ASSIGNED"
        /\ res = "FAILED" => Len(id) < MaxDepth
        /\ packet' = [packet EXCEPT ![id].status = res]
    /\ wpc' = [wpc EXCEPT ![i] = IF wrun[i] THEN "waiting" ELSE "finished"]
    /\ UNCHANGED <<initial_task, workforces, wrun, running, pending_packets,
                   task_dict, subtasks, composed, pc, error, dec, sent, acked,
                   failed_seen>>
    /\ UNCHANGED <<taskvars, workervars>>

\* --------------------------------------------------------- environment
\* listening() has neither returned nor raised: other tasks get to run
\* before it starts and whenever it is suspended
Active == pc \in {"listening", "wait", "creating"}

\* stop() called on the supervisor from outside
Stop ==
    /\ Active
    /\ running \/ \E i \in DOMAIN wrun : wrun[i]
    /\ running' = FALSE
    /\ wrun' = stop(wrun)
    /\ UNCHANGED <<initial_task, workforces, wpc, pending_packets, packet,
                   task_dict, subtasks, composed, pc, error, dec, sent, acked,
                   failed_seen>>
    /\ UNCHANGED <<taskvars, workervars>>

\* the other publisher sends its task to worker id a
OtherSend(a) ==
    /\ Active
    /\ OtherTask \notin task_dict
    /\ packet' = (OtherTask :> [publisher_id |-> OtherPublisher,
                                assignee_id |-> a, dependencies |-> <<>>,
                                status |-> "ASSIGNED"]) @@ packet
    /\ task_dict' = task_dict \cup {OtherTask}
    /\ UNCHANGED <<initial_task, workforces, wrun, wpc, running,
                   pending_packets, subtasks, composed, pc, error, dec, sent,
                   acked, failed_seen>>
    /\ UNCHANGED <<taskvars, workervars>>

\* the other publisher gets its task back and removes it
OtherCollect ==
    /\ OtherTask \in Returned(OtherPublisher)
    /\ task_dict' = task_dict \ {OtherTask}
    /\ UNCHANGED <<initial_task, workforces, wrun, wpc, running,
                   pending_packets, packet, subtasks, composed, pc, error, dec,
                   sent, acked, failed_seen>>
    /\ UNCHANGED <<taskvars, workervars>>

\* ------------------------------------------------ idle parts of the state
\* no call was made yet
NoCall == [op |-> "none"]

\* no Task object and no TaskManager was constructed
TaskIdle ==
    /\ tid = <<>>
    /\ tsubs = <<>>
    /\ tparent = <<>>
    /\ tstate = <<>>
    /\ tresult = <<>>
    /\ tm_tasks = <<>>
    /\ tm_map = <<>>
    /\ last = NoCall

\* no SingleAgentWorker processed a task
WorkerIdle == calls = <<>>

\* the supervisor part when no InternalWorkforce was constructed
WfIdle ==
    /\ initial_task = NoTask
    /\ workforces = <<>>
    /\ wrun = <<>>
    /\ wpc = <<>>
    /\ running = FALSE
    /\ pending_packets = <<>>
    /\ packet = <<>>
    /\ task_dict = {}
    /\ subtasks = <<>>
    /\ composed = {}
    /\ pc = "none"
    /\ error = "none"
    /\ dec = NoDec
    /\ sent = <<>>
    /\ acked = <<>>
    /\ failed_seen = {}

\* ---------------------------------------------------------------- spec
\* the state after InternalWorkforce.start created the tasks and the
\* children's start() ran: every child waits on the channel
Init ==
    /\ initial_task \in {RootId, NoTask}
    /\ workforces \in InitRosters
    /\ wrun = [i \in DOMAIN workforces |-> TRUE]
    /\ wpc = [i \in DOMAIN workforces |-> "waiting"]
    /\ running = TRUE
    /\ pending_packets = <<>>
    /\ packet = <<>>
    /\ task_dict = {}
    /\ subtasks = <<>>
    /\ composed = {}
    /\ pc = "listening"
    /\ error = "none"
    /\ dec = NoDec
    /\ sent = <<>>
    /\ acked = <<>>
    /\ failed_seen = {}
    /\ TaskIdle
    /\ WorkerIdle

\* the worker ids the other publisher may address
WorkerIds == {ToString(i) : i \in 1..(Cardinality(assign_task) + MaxSub)}

Next ==
    \/ ListeningInit
    \/ HandleCompleted
    \/ HandleFailed
    \/ CreateReturn
    \/ \E i \in DOMAIN workforces : WorkerStart(i)
    \/ \E i \in DOMAIN workforces : WorkerProcess(i)
    \/ Stop
    \/ \E a \in WorkerIds : OtherSend(a)
    \/ OtherCollect

Spec == Init /\ [][Next]_vars

\* The event loop runs every task that is ready: the supervisor when the
\* call it waits in can return, a worker when a packet waits for it.
\* Nothing obliges the environment to call stop() or to send anything.
FairSpec ==
    /\ Spec
    /\ WF_vars(ListeningInit)
    /\ WF_vars(HandleCompleted)
    /\ WF_vars(HandleFailed)
    /\ WF_vars(CreateReturn)
    /\ WF_vars(\E i \in DOMAIN workforces : WorkerStart(i))
    /\ WF_vars(\E i \in DOMAIN workforces : WorkerProcess(i))

\* ------------------------------------------------------------ Task
\* class TaskSate
TaskSate == {"OPEN", "RUNNING", "DONE", "DELETED"}

\* parent is None
NoObj == 0

\* the Task objects made so far
Objs == DOMAIN tid

\* the chain of parents of o, up to the task whose parent is None
RECURSIVE Ancestors(_, _)
Ancestors(par, o) ==
    IF par[o] = NoObj THEN {} ELSE {par[o]} \cup Ancestors(par, par[o])

\* the tasks below o
Descendants(par, o) == {d \in DOMAIN par : o \in Ancestors(par, d)}

\* Task(content=..., id=id) for each id of ids: state OPEN, parent None,
\* no subtasks
NewTasks(ids) ==
    /\ tid' = tid \o ids
    /\ tsubs' = tsubs \o [i \in 1..Len(ids) |-> <<>>]
    /\ tparent' = tparent \o [i \in 1..Len(ids) |-> NoObj]
    /\ tstate' = tstate \o [i \in 1..Len(ids) |-> "OPEN"]
    /\ tresult' = tresult \o [i \in 1..Len(ids) |-> ""]

RECURSIVE set_state(_, _, _)
RECURSIVE SetSubtasks(_, _, _, _)

\* only the parent itself is set
set_parent_state_once(ts, p, state) == [ts EXCEPT ![p] = state]

\* self.parent.set_state(state)
set_parent_state(ts, p, state) == set_state(ts, p, state)

\* only the OPEN subtasks are visited
VisitsSubtaskOpenOnly(state) == state = "OPEN"

\* if subtask.state != TaskSate.DELETED
VisitsSubtask(state) == state # "DELETED"

\* for subtask in self.subtasks: ... subtask.set_state(state)
SetSubtasks(ts, subs, k, state) ==
    IF k > Len(subs) THEN ts
    ELSE SetSubtasks(IF VisitsSubtask(ts[subs[k]])
                     THEN set_state(ts, subs[k], state)
                     ELSE ts,
                     subs, k + 1, state)

\* Task.set_state: the states of all tasks after o.set_state(state)
set_state(ts, o, state) ==
    LET ts1 == [ts EXCEPT ![o] = state]
    IN  IF state = "DONE" THEN SetSubtasks(ts1, tsubs[o], 1, state)
        ELSE IF state = "RUNNING"
        THEN IF tparent[o] # NoObj THEN set_parent_state(ts1, tparent[o], state)
             ELSE ts1
        ELSE ts1

\* the call made in this step: the operation and the task it was made on
Call(op, o) == [op |-> op, task |-> o]

\* TaskManager.decompose(task): parse_response makes n tasks "{task.id}.{i}"
Decompose(o, n) ==
    /\ Len(tid) + n <= MaxTasks
    /\ NewTasks(SubtaskIds(tid[o], n))
    /\ last' = Call("decompose", o)
    /\ UNCHANGED <<tm_tasks, tm_map>>
    /\ UNCHANGED <<wfvars, workervars>>

\* TaskManager.evolve(task): the first task parse_response makes
Evolve(o) ==
    /\ Len(tid) + 1 <= MaxTasks
    /\ NewTasks(SubSeq(SubtaskIds(tid[o], 1), 1, 1))
    /\ last' = Call("evolve", o)
    /\ UNCHANGED <<tm_tasks, tm_map>>
    /\ UNCHANGED <<wfvars, workervars>>

\* p.add_subtask(c), for a task c that is in no tree yet and not above p
AddSubtask(p, c) ==
    /\ c # p
    /\ tparent[c] = NoObj
    /\ c \notin Ancestors(tparent, p)
    /\ tparent' = [tparent EXCEPT ![c] = p]
    /\ tsubs' = [tsubs EXCEPT ![p] = Append(@, c)]
    /\ last' = Call("add_subtask", p)
    /\ UNCHANGED <<tid, tstate, tresult, tm_tasks, tm_map>>
    /\ UNCHANGED <<wfvars, workervars>>

\* o.set_state(state)
SetState(o, state) ==
    /\ tstate' = set_state(tstate, o, state)
    /\ last' = Call("set_state", o)
    /\ UNCHANGED <<tid, tsubs, tparent, tresult, tm_tasks, tm_map>>
    /\ UNCHANGED <<wfvars, workervars>>

\* message.content of the messages passed to update_task_result
Contents == {"result"}

\* o.reset()
Reset(o) ==
    /\ tstate' = [tstate EXCEPT ![o] = "OPEN"]
    /\ tresult' = [tresult EXCEPT ![o] = ""]
    /\ last' = Call("reset", o)
    /\ UNCHANGED <<tid, tsubs, tparent, tm_tasks, tm_map>>
    /\ UNCHANGED <<wfvars, workervars>>

\* o.update_task_result(message)
UpdateTaskResult(o, content) ==
    /\ tresult' = [tresult EXCEPT ![o] = content]
    /\ tstate' = [tstate EXCEPT ![o] = "OPEN"]
    /\ last' = Call("update_task_result", o)
    /\ UNCHANGED <<tid, tsubs, tparent, tm_tasks, tm_map>>
    /\ UNCHANGED <<wfvars, workervars>>

\* Task.from_message: one task with id "0"
InitTask ==
    /\ tid = <<RootId>>
    /\ tsubs = << <<>> >>
    /\ tparent = <<NoObj>>
    /\ tstate = <<"OPEN">>
    /\ tresult = <<"">>
    /\ tm_tasks = <<>>
    /\ tm_map = <<>>
    /\ last = NoCall
    /\ WfIdle
    /\ WorkerIdle

NextTask ==
    \/ \E o \in Objs : \E n \in 1..MaxSub : Decompose(o, n)
    \/ \E o \in Objs : Evolve(o)
    \/ \E p \in Objs : \E c \in Objs : AddSubtask(p, c)
    \/ \E o \in Objs : \E state \in TaskSate : SetState(o, state)
    \/ \E o \in Objs : Reset(o)
    \/ \E o \in Objs : \E content \in Contents : UpdateTaskResult(o, content)

SpecTask == InitTask /\ [][NextTask]_vars

\* -------------------------------------------------------- TaskManager
\* the ids the caller gives the tasks it constructs: "0", "1", ...
IdPool == {<<i>> : i \in 0..(MaxTasks - 1)}

\* the batches passed to add_tasks: lists of tasks, [] included
Batches == UNION {[1..n -> Objs] : n \in 0..MaxBatch}

RECURSIVE visit(_, _)
RECURSIVE VisitAll(_, _, _)

\* no task counts as visited
VisitedNever(id, visited) == FALSE

\* if task.id in visited
Visited(id, visited) == id \in visited

\* the id is not recorded
MarkVisitedNot(id, visited) == visited

\* visited.add(task.id)
MarkVisited(id, visited) == visited \cup {id}

\* the number of visit calls after which a run is given up as one that
\* does not end: more than any run over at most MaxTasks + MaxBatch listed
\* tasks needs when every task's subtasks are gone through once
MaxVisits == MaxTasks + MaxBatch + MaxTasks * MaxSub

\* the subtasks are not gone into
SubtasksSkipped(o) == <<>>

\* task.subtasks, gone through by visit
SubtasksVisited(o) == tsubs[o]

\* for task in tasks: visit(task)
VisitAll(st, tasks, k) ==
    IF k > Len(tasks) \/ st.exhausted THEN st
    ELSE VisitAll(visit(st, tasks[k]), tasks, k + 1)

\* visit(task) of topological_sort; calls counts the calls of visit
visit(st, o) ==
    IF st.calls >= MaxVisits THEN [st EXCEPT !.exhausted = TRUE]
    ELSE LET st0 == [st EXCEPT !.calls = @ + 1]
         IN  IF Visited(tid[o], st0.visited) THEN st0
             ELSE LET st1 == VisitAll([st0 EXCEPT !.visited =
                                            MarkVisited(tid[o], @)],
                                      SubtasksVisited(o), 1)
                  IN  IF st1.exhausted THEN st1
                      ELSE [st1 EXCEPT !.stack = Append(@, o)]

\* the run of topological_sort(tasks): the stack, the visited set and
\* the number of visit calls made
SortRun(tasks) ==
    VisitAll([stack |-> <<>>, visited |-> {}, calls |-> 0,
              exhausted |-> FALSE], tasks, 1)

\* TaskManager.topological_sort
topological_sort(tasks) == SortRun(tasks).stack

\* {task.id: task for task in tasks}: a later task replaces an earlier
\* one with the same id
TaskMap(tasks) ==
    [id \in {tid[tasks[i]] : i \in 1..Len(tasks)} |->
        LET i == CHOOSE i \in 1..Len(tasks) :
                    /\ tid[tasks[i]] = id
                    /\ \A j \in (i + 1)..Len(tasks) : tid[tasks[j]] # id
        IN  tasks[i]]

\* TaskManager.exist
exist(id) == id \in DOMAIN tm_map

\* the call add_tasks(batch) and how it ended
AddCall(batch, result) == [op |-> "add_tasks", batch |-> batch, result |-> result]

\* TaskManager.add_tasks
AddTasks(batch) ==
    /\ IF batch = <<>>
       THEN /\ UNCHANGED <<tm_tasks, tm_map>>
            /\ last' = AddCall(batch, "ok")
       ELSE IF \E i \in 1..Len(batch) : exist(tid[batch[i]])
       THEN /\ UNCHANGED <<tm_tasks, tm_map>>
            /\ last' = AddCall(batch, "AssertionError")
       ELSE /\ tm_tasks' = topological_sort(tm_tasks \o batch)
            /\ tm_map' = TaskMap(tm_tasks')
            /\ last' = AddCall(batch, "ok")
    /\ UNCHANGED <<tid, tsubs, tparent, tstate, tresult>>
    /\ UNCHANGED <<wfvars, workervars>>

\* o.set_id(id)
SetId(o, id) ==
    /\ tid' = [tid EXCEPT ![o] = id]
    /\ last' = Call("set_id", o)
    /\ UNCHANGED <<tsubs, tparent, tstate, tresult, tm_tasks, tm_map>>
    /\ UNCHANGED <<wfvars, workervars>>

\* MaxTasks tasks constructed with ids of the caller's choice, and
\* TaskManager(task) for the first of them
InitTM ==
    /\ tid \in [1..MaxTasks -> IdPool]
    /\ tsubs = [o \in 1..MaxTasks |-> <<>>]
    /\ tparent = [o \in 1..MaxTasks |-> NoObj]
    /\ tstate = [o \in 1..MaxTasks |-> "OPEN"]
    /\ tresult = [o \in 1..MaxTasks |-> ""]
    /\ tm_tasks = <<1>>
    /\ tm_map = (tid[1] :> 1)
    /\ last = NoCall
    /\ WfIdle
    /\ WorkerIdle

NextTM ==
    \/ \E batch \in Batches : AddTasks(batch)
    \/ \E p \in Objs : \E c \in Objs : AddSubtask(p, c)
    \/ \E o \in Objs : \E id \in IdPool : SetId(o, id)

SpecTM == InitTM /\ [][NextTM]_vars

\* p.add_subtask(c) for any two tasks: the code checks nothing, so c may
\* be p itself, a task above p, or a task that already has a parent
AddSubtaskAny(p, c) ==
    /\ Len(tsubs[p]) < MaxSub
    /\ tparent' = [tparent EXCEPT ![c] = p]
    /\ tsubs' = [tsubs EXCEPT ![p] = Append(@, c)]
    /\ last' = Call("add_subtask", p)
    /\ UNCHANGED <<tid, tstate, tresult, tm_tasks, tm_map>>
    /\ UNCHANGED <<wfvars, workervars>>

\* TaskManager.topological_sort(tasks), called on its own
Sort(tasks) ==
    /\ last' = [op |-> "topological_sort", tasks |-> tasks,
                run |-> SortRun(tasks)]
    /\ UNCHANGED <<tid, tsubs, tparent, tstate, tresult, tm_tasks, tm_map>>
    /\ UNCHANGED <<wfvars, workervars>>

\* the ids of the tasks that are sorted: all different, or "0", "1", "0",
\* ... with repeats
SortIds == {[o \in 1..MaxTasks |-> <<o - 1>>],
            [o \in 1..MaxTasks |-> <<(o - 1) % 2>>]}

\* MaxTasks tasks, linked by add_subtask in any way, and lists of them
\* sorted
InitSort ==
    /\ tid \in SortIds
    /\ tsubs = [o \in 1..MaxTasks |-> <<>>]
    /\ tparent = [o \in 1..MaxTasks |-> NoObj]
    /\ tstate = [o \in 1..MaxTasks |-> "OPEN"]
    /\ tresult = [o \in 1..MaxTasks |-> ""]
    /\ tm_tasks = <<>>
    /\ tm_map = <<>>
    /\ last = NoCall
    /\ WfIdle
    /\ WorkerIdle

NextSort ==
    \/ \E p \in Objs : \E c \in Objs : AddSubtaskAny(p, c)
    \/ \E tasks \in Batches : Sort(tasks)

SpecSort == InitSort /\ [][NextSort]_vars

\* --------------------------------------------------- SingleAgentWorker
\* what self.worker.step does: it raises, or it answers with a message
\* whose content is one of these texts
Replies == {"raise",
            "sorry, I cannot",
            "[1]",
            "{'content': 'r'}",
            "{'content': 'r', 'failed': True}",
            "{'content': 'r', 'failed': False}"}

\* ast.literal_eval of the content: the Python value, or the exception
literal_eval(content) ==
    CASE content = "[1]" -> [kind |-> "list"]
      [] content = "{'content': 'r'}" ->
            [kind |-> "dict", d |-> [content |-> "r"]]
      [] content = "{'content': 'r', 'failed': True}" ->
            [kind |-> "dict", d |-> [content |-> "r", failed |-> TRUE]]
      [] content = "{'content': 'r', 'failed': False}" ->
            [kind |-> "dict", d |-> [content |-> "r", failed |-> FALSE]]
      [] OTHER -> [kind |-> "raise", exc |-> "SyntaxError"]

\* TaskResult(**result_dict): both fields are required
TaskResult(v) ==
    IF v.kind # "dict" THEN [kind |-> "raise", exc |-> "TypeError"]
    ELSE IF DOMAIN v.d # {"content", "failed"}
    THEN [kind |-> "raise", exc |-> "ValidationError"]
    ELSE [kind |-> "TaskResult", content |-> v.d.content, failed |-> v.d.failed]

\* the parse of the reply is after the try block: its exception propagates
ParseReply(v) == IF v.kind = "raise" THEN [raises |-> v.exc] ELSE v

\* SingleAgentWorker._process_task for one outcome of the step call: what
\* it returns or raises, and the result it stores in the task
_process_task(reply) ==
    IF reply = "raise" THEN [returns |-> "FAILED"]
    ELSE LET result_dict == ParseReply(literal_eval(reply))
             task_result == IF "kind" \in DOMAIN result_dict
                            THEN ParseReply(TaskResult(result_dict))
                            ELSE result_dict
         IN  IF "kind" \notin DOMAIN task_result THEN task_result
             ELSE IF task_result.failed THEN [returns |-> "FAILED"]
             ELSE [returns |-> "DONE", result |-> task_result.content]

\* one call of _process_task
ProcessTask ==
    /\ Len(calls) < MaxCalls
    /\ \E reply \in Replies :
        calls' = Append(calls, [reply |-> reply, out |-> _process_task(reply)])
    /\ UNCHANGED <<wfvars, taskvars>>

InitWorker == WfIdle /\ TaskIdle /\ WorkerIdle

NextWorker == ProcessTask

SpecWorker == InitWorker /\ [][NextWorker]_vars

\* -------------------------------------------------------------- claims
Last(s) == s[Len(s)]

IsPrefix(s, t) == Len(s) <= Len(t) /\ SubSeq(t, 1, Len(s)) = s

\* the packets this supervisor published
Mine == {id \in DOMAIN packet : packet[id].publisher_id = WorkforceId}

\* a comes before p in the order the work is to be dispatched: a is a
\* replacement in p's own lineage, or an earlier sibling of p or of one of
\* p's ancestors, or a replacement in such a sibling's lineage
Precedes(a, p) ==
    \/ Len(p) < Len(a) /\ IsPrefix(p, a)
    \/ \E i \in 1..Len(a) :
        /\ i <= Len(p)
        /\ SubSeq(a, 1, i - 1) = SubSeq(p, 1, i - 1)
        /\ a[i] < p[i]

\* the replacement packets: the packets of the subtasks of a failed task
Replacements == {id \in Mine : \E f \in failed_seen : id \in SeqToSet(Subs(subtasks, f))}

\* C1: in a run where the supervisor got no packet back FAILED, the packets
\* are sent in the order the decomposition produced them (the synthetic
\* root packet after them), every sent packet but the last has been
\* acknowledged CLOSED, in the same order, and at most one packet of the
\* supervisor is in the channel with a status other than CLOSED.
C1_QueueDiscipline ==
    failed_seen = {} =>
        /\ IsPrefix(sent, Subs(subtasks, RootId) \o <<RootId>>)
        /\ Len(sent) <= Len(acked) + 1
        /\ acked = SubSeq(sent, 1, Len(acked))
        /\ Cardinality({id \in task_dict \cap Mine :
                          packet[id].status # "CLOSED"}) <= 1

\* two subtasks and the root were sent in order, the subtasks are CLOSED
C1_Witness ==
    /\ failed_seen = {}
    /\ sent = <<<<0, 0>>, <<0, 1>>, RootId>>
    /\ acked = <<<<0, 0>>, <<0, 1>>>>

\* C2 (as claimed): no replacement packet is addressed to the assignee id
\* of the failed packet it replaces, whatever the ids of the children.
C2_RecoveryIsolation ==
    \A f \in failed_seen : \A id \in SeqToSet(Subs(subtasks, f)) :
        id \in DOMAIN packet =>
            packet[id].assignee_id # packet[f].assignee_id

\* C3: the packet of the k-th subtask of a decomposition has the
\* supervisor as publisher and depends on exactly the subtasks before it,
\* in order; this stays so while later packets are made.
C3_DependencyChain ==
    \A p \in DOMAIN subtasks : \A k \in 1..Len(subtasks[p]) :
        subtasks[p][k] \in DOMAIN packet =>
            /\ packet[subtasks[p][k]].publisher_id = WorkforceId
            /\ packet[subtasks[p][k]].dependencies
                   = SubSeq(subtasks[p], 1, k - 1)

\* both packets of a two-subtask recovery decomposition exist, and so do
\* both packets of a two-subtask initial decomposition
C3_Witness ==
    /\ <<0, 1>> \in DOMAIN packet
    /\ \E f \in failed_seen :
        /\ Len(Subs(subtasks, f)) = 2
        /\ SeqToSet(subtasks[f]) \subseteq DOMAIN packet

\* C4 (as claimed): once a packet came back FAILED and its task was
\* decomposed into replacements, a replacement packet is eventually sent.
C4_FailedReturnContinues ==
    (pc = "creating") ~> (\E i \in 1..Len(sent) : sent[i] \in Replacements)

\* scenario 1: "0" decomposed into ["0.0", "0.1"], no failure, queue drained
Scenario1 ==
    /\ Subs(subtasks, RootId) = <<<<0, 0>>, <<0, 1>>>>
    /\ failed_seen = {}
    /\ pc = "done"
    /\ pending_packets = <<>>

C6_Scenario2Trace ==
    (/\ pc = "creating"
     /\ failed_seen = {<<0, 0>>}
     /\ dec.subs = <<<<0, 0, 0>>, <<0, 0, 1>>>>)
    ~> (/\ {<<0, 0, 0>>, <<0, 0, 1>>} \subseteq task_dict
        /\ <<0, 0>> \notin task_dict
        /\ \A id \in {<<0, 0, 0>>, <<0, 0, 1>>} : packet[id].status = "CLOSED")

\* C7: whenever a packet is sent, every packet the supervisor has made
\* that comes before it (its own replacements, its earlier siblings and
\* the earlier siblings of its ancestors, and their replacements) has been
\* acknowledged CLOSED.
C7_LineageResolvesFirst ==
    [][sent' # sent =>
        \A a \in DOMAIN packet' :
            (packet'[a].publisher_id = WorkforceId /\ Precedes(a, Last(sent')))
                => a \in SeqToSet(acked')]_vars

\* "0.0" failed and was resolved, and "0.1" has now been sent
C7_Witness ==
    /\ <<0, 0>> \in failed_seen
    /\ sent # <<>>
    /\ Last(sent) = <<0, 1>>
    /\ <<0, 0>> \in SeqToSet(acked)

\* C8: when listening() has returned with the queue empty, every packet
\* of the supervisor in the channel map is CLOSED.
C8_TraceAllClosed ==
    (pc = "done" /\ pending_packets = <<>>) =>
        \A id \in task_dict \cap Mine : packet[id].status = "CLOSED"

C8_Witness ==
    /\ pc = "done"
    /\ pending_packets = <<>>
    /\ task_dict \cap Mine # {}
    /\ failed_seen # {}

\* C9: when listening() has returned, the supervisor's running flag is
\* false and so is the running flag of every child in the roster.
C9_AllStopped ==
    pc = "done" => ~running /\ \A i \in DOMAIN workforces : ~wrun[i]

C9_Witness ==
    /\ pc = "done"
    /\ pending_packets = <<>>
    /\ initial_task = RootId

\* C10 (as claimed): create_workforce_for_task does not wait for the new
\* worker: whenever the supervisor is inside it, it can return.
C10_CreateDoesNotWait == pc = "creating" => ENABLED CreateReturn

\* the packets of the non-failure decomposition of the initial task
InitialPackets == SeqToSet(Subs(subtasks, initial_task)) \cap Mine

\* C12 (as claimed): every packet of the non-failure decomposition is
\* addressed to the workforce_id of one of the supervisor's children.
C12_AssigneeInRoster ==
    \A id \in InitialPackets : packet[id].assignee_id \in SeqToSet(workforces)

\* C20 (as claimed, the nested failure): when a replacement packet comes
\* back FAILED, the supervisor decomposes it again and a replacement of
\* that replacement is the next packet it sends.
C20_NestedRecovery ==
    (\E r \in Replacements : packet[r].status = "FAILED")
        ~> (\E r \in Replacements \cap failed_seen :
                \E i \in 1..Len(sent) : sent[i] \in SeqToSet(Subs(subtasks, r)))

\* the FAILED branch puts the replacements, in decomposition order, ahead
\* of the queue as it was and sends the first of them
PrependInOrder ==
    [][(pc \in {"wait", "creating"} /\ failed_seen' # {} /\ error' = "none"
        /\ pending_packets' # pending_packets)
       => \/ pending_packets' = Tail(pending_packets)
          \/ \E f \in failed_seen' :
                /\ Subs(subtasks', f) # <<>>
                /\ pending_packets' = Subs(subtasks', f) \o pending_packets
                /\ Last(sent') = Head(Subs(subtasks', f))]_vars

StepSetState(o, state) == last' = Call("set_state", o) /\ tstate'[o] = state

\* the descendants of o that set_state(DONE) on o gets to: the tasks below
\* o that are not DELETED and have no DELETED task between them and o
Reached(o) ==
    {d \in Descendants(tparent, o) :
        \A a \in ({d} \cup Ancestors(tparent, d)) \ ({o} \cup Ancestors(tparent, o)) :
            tstate[a] # "DELETED"}

C18_RunningPropagates ==
    [][\A o \in Objs : StepSetState(o, "RUNNING") =>
          \A x \in Objs :
              tstate'[x] = IF x = o \/ x \in Ancestors(tparent, o)
                           THEN "RUNNING" ELSE tstate[x]]_vars

\* a task two levels below its root was set RUNNING
C18_Witness ==
    \E o \in Objs :
        /\ last = Call("set_state", o)
        /\ tstate[o] = "RUNNING"
        /\ Cardinality(Ancestors(tparent, o)) = 2
        /\ \A a \in Ancestors(tparent, o) : tstate[a] = "RUNNING"

\* the task at the top of the tree o is in
RootOf(o) ==
    IF tparent[o] = NoObj THEN o
    ELSE CHOOSE a \in Ancestors(tparent, o) : tparent[a] = NoObj

\* C19 (as claimed): the id of the k-th subtask of a task is the task's id
\* followed by k - 1 (the index counts from 0), and of two tasks of one
\* tree one is below the other exactly when its id extends the other's.
C19_IdsFollowTree ==
    /\ \A p \in Objs : \A k \in 1..Len(tsubs[p]) :
           tid[tsubs[p][k]] = Append(tid[p], k - 1)
    /\ \A p \in Objs : \A d \in Objs :
           RootOf(p) = RootOf(d) =>
              (d \in Descendants(tparent, p)
                 <=> (Len(tid[p]) < Len(tid[d]) /\ IsPrefix(tid[p], tid[d])))

\* no two entries of the list have the same id
UniqueIds(tasks, ids) ==
    \A i \in 1..Len(tasks) : \A j \in 1..Len(tasks) :
        ids[tasks[i]] = ids[tasks[j]] => i = j

\* the last call was an add_tasks that went through with a non-empty batch
Added == last.op = "add_tasks" /\ last.result = "ok" /\ last.batch # <<>>

\* C13: the list of the constructor has one entry, and every add_tasks
\* call, whatever the batch (tasks with subtasks, ids repeated inside the
\* batch), leaves a list in which no two entries have the same id: a call
\* that adds tasks makes it so, any other call keeps it so.
C13_UniqueIds ==
    [][last'.op = "add_tasks" =>
          ((Added' \/ UniqueIds(tm_tasks, tid)) => UniqueIds(tm_tasks', tid'))]_vars

\* a batch of two different tasks with the same id was added
C13_Witness ==
    /\ Added
    /\ Len(last.batch) = 2
    /\ last.batch[1] # last.batch[2]
    /\ tid[last.batch[1]] = tid[last.batch[2]]
    /\ last.batch[1] \in SeqToSet(tm_tasks)

\* C14 (as claimed): after an add_tasks call every subtask of a task of
\* the list is in the list, at an earlier position than the task.
C14_SubtasksFirst ==
    Added =>
        \A j \in 1..Len(tm_tasks) : \A k \in 1..Len(tsubs[tm_tasks[j]]) :
            \E i \in 1..(j - 1) : tm_tasks[i] = tsubs[tm_tasks[j]][k]

\* C15 (as claimed): the keys of task_map are the ids of the tasks of the
\* list, and task_map[t.id] is t for every task t of the list.
C15_InSync ==
    /\ DOMAIN tm_map = {tid[tm_tasks[i]] : i \in 1..Len(tm_tasks)}
    /\ \A i \in 1..Len(tm_tasks) : tm_map[tid[tm_tasks[i]]] = tm_tasks[i]

\* C16 (as claimed): add_tasks with a batch holding a task whose id is
\* registered ends in an assertion error and changes neither tasks nor
\* task_map; with no such task every task of the batch is registered
\* after the call.
C16_AddTasksAllOrNothing ==
    [][last'.op = "add_tasks" =>
          IF \E i \in 1..Len(last'.batch) : exist(tid[last'.batch[i]])
          THEN /\ last'.result = "AssertionError"
               /\ tm_tasks' = tm_tasks
               /\ tm_map' = tm_map
          ELSE /\ last'.result = "ok"
               /\ \A i \in 1..Len(last'.batch) :
                     /\ last'.batch[i] \in SeqToSet(tm_tasks')
                     /\ tid[last'.batch[i]] \in DOMAIN tm_map'
                     /\ tm_map'[tid[last'.batch[i]]] = last'.batch[i]]_vars

\* the status of packet id in pk, "none" when there is no such packet
StatusOf(pk, id) == IF id \in DOMAIN pk THEN pk[id].status ELSE "none"

\* C21 (as claimed): a packet of the supervisor gets the status COMPLETED
\* only in a step of its assignee, gets the status CLOSED only when the
\* supervisor handles it as a returned COMPLETED packet, and a packet that
\* came back FAILED is never COMPLETED or CLOSED afterwards.
C21_StatusTransitions ==
    [][\A id \in DOMAIN packet' :
          packet'[id].publisher_id = WorkforceId =>
            /\ (packet'[id].status = "COMPLETED" /\ StatusOf(packet, id) # "COMPLETED")
                 => \E i \in DOMAIN workforces :
                       /\ workforces[i] = packet'[id].assignee_id
                       /\ WorkerProcess(i)
            /\ (packet'[id].status = "CLOSED" /\ StatusOf(packet, id) # "CLOSED")
                 => (StatusOf(packet, id) = "COMPLETED" /\ HandleCompleted)
            /\ id \in failed_seen => packet'[id].status \notin {"COMPLETED", "CLOSED"}]_vars

\* C22 (as claimed): after a decomposition that yields no subtask, of the
\* initial task or of a failed task, no error is raised, the queue never
\* drains and the task is never acknowledged CLOSED.
C22_EmptyDecompositionStalls ==
    \A t \in DOMAIN subtasks :
        subtasks[t] = <<>> =>
            /\ error = "none"
            /\ pending_packets # <<>>
            /\ t \notin SeqToSet(acked)

\* C24 (as claimed): the supervisor never sends a task id that has an
\* entry in the channel and never removes one that has none.
C24_NoChannelError == error \notin {"DuplicateTask", "KeyError"}

\* the packets of the supervisor that are in the channel and not CLOSED
Outstanding == {id \in Mine \cap task_dict : packet[id].status # "CLOSED"}

\* C28 (as claimed): at most one packet of the supervisor is in the channel
\* with a status other than CLOSED, and it is the head of pending_packets;
\* so a packet that is returned to the supervisor is the head of the queue.
C28_OneOutstanding ==
    /\ Cardinality(Outstanding) <= 1
    /\ \A id \in Outstanding :
          pending_packets # <<>> /\ id = Head(pending_packets)

\* a packet failed and was sent again composed, the root was composed, and
\* the run ended without an error
C24_Witness ==
    /\ pc = "done"
    /\ error = "none"
    /\ failed_seen # {}
    /\ failed_seen \subseteq composed
    /\ RootId \in composed

\* after a failure: the first replacement is out, the others, the failed
\* packet and the root packet wait behind it
C28_Witness ==
    /\ failed_seen # {}
    /\ Cardinality(Outstanding) = 1
    /\ Len(pending_packets) >= 3
    /\ Head(pending_packets) \in Replacements

\* C23 (as claimed): a supervisor that was stopped while it waits on the
\* channel and then gets a packet back handles that packet and leaves the
\* loop: listening returns (or raises).
C23_StoppedSupervisorLeaves ==
    (~running /\ pc = "wait" /\ Returned(WorkforceId) # {})
        ~> (pc \in {"done", "error"})

\* stop() does not end the channel wait: the supervisor leaves the wait
\* only when a packet of its own was returned; once running is false, the
\* handling of that packet does not lead back to the wait, whatever is
\* still pending, and the supervisor never waits on the channel again
StopNeverWaitsAgain ==
    [][/\ (pc = "wait" /\ pc' # "wait") => Returned(WorkforceId) # {}
       /\ (~running /\ (HandleCompleted \/ HandleFailed \/ CreateReturn))
            => pc' \in {"done", "error", "creating"}
       /\ (~running /\ pc # "wait") => pc' # "wait"]_vars

\* C30: with initial_task None the supervisor sends nothing and never
\* waits; the one step of listening stops the supervisor and every child
\* and leaves the channel as it found it.
C30_NoInitialTask ==
    [][initial_task = NoTask =>
          /\ sent' = <<>>
          /\ pc' \in {"listening", "done"}
          /\ pc' # pc =>
                /\ ~running'
                /\ \A i \in DOMAIN wrun' : ~wrun'[i]
                /\ task_dict' = task_dict
                /\ packet' = packet
                /\ pending_packets' = <<>>]_vars

\* listening returned without a task, with another publisher's packet in
\* the channel
C30_Witness ==
    /\ initial_task = NoTask
    /\ pc = "done"
    /\ OtherTask \in task_dict
    /\ sent = <<>>

\* C25: whatever set_state, add_subtask, reset and update_task_result
\* calls were made, every task whose state is RUNNING has all of its
\* ancestors in state RUNNING
C25_RunningChain ==
    \A o \in Objs :
        tstate[o] = "RUNNING" =>
            \A a \in Ancestors(tparent, o) : tstate[a] = "RUNNING"

\* C26: a task that exists enters the OPEN state only in a reset() of that
\* task (or when the caller sets it with set_state(OPEN) on that very
\* task): update_task_result, add_subtask and the propagation of
\* set_state never make a task OPEN
C26_OpenOnlyByReset ==
    [][\A o \in Objs :
          (tstate[o] # "OPEN" /\ tstate'[o] = "OPEN") =>
              \/ last' = Call("reset", o)
              \/ last' = Call("set_state", o) /\ SetState(o, "OPEN")]_vars

\* the subtasks of o as a set
SubtaskSet(o) == {tsubs[o][k] : k \in 1..Len(tsubs[o])}

\* the tasks reachable from the tasks of S through subtasks edges
RECURSIVE ReachableFrom(_)
ReachableFrom(S) ==
    LET T == S \cup UNION {SubtaskSet(o) : o \in S}
    IN  IF T = S THEN S ELSE ReachableFrom(T)

\* the subtasks edges reachable from the listed tasks contain a cycle
HasCycle(tasks) ==
    \E o \in ReachableFrom({tasks[k] : k \in 1..Len(tasks)}) :
        o \in ReachableFrom(SubtaskSet(o))

RECURSIVE SumSubtasks(_, _)
\* the number of subtasks entries of the tasks stack[1..k]
SumSubtasks(stack, k) ==
    IF k = 0 THEN 0 ELSE Len(tsubs[stack[k]]) + SumSubtasks(stack, k - 1)

\* C27 (as claimed): topological_sort ends exactly on acyclic input: if
\* the subtasks edges reachable from the input contain a cycle, the run
\* does not end
C27_CycleLoops ==
    last.op = "topological_sort" =>
        (HasCycle(last.tasks) <=> last.run.exhausted)

\* C27 (amended): topological_sort ends on every input, cyclic or not:
\* visit records the id before it goes into the subtasks, so it goes
\* through the subtasks of a task at most once; it is called once per
\* listed task and once per subtasks entry of the tasks it returns
C27_SortTerminates ==
    last.op = "topological_sort" =>
        /\ ~last.run.exhausted
        /\ last.run.calls = Len(last.tasks)
                              + SumSubtasks(last.run.stack, Len(last.run.stack))

\* a list whose subtasks edges contain a cycle through two tasks was sorted
C27_Witness ==
    /\ last.op = "topological_sort"
    /\ HasCycle(last.tasks)
    /\ ~last.run.exhausted
    /\ \E a \in Objs : \E b \in Objs \ {a} :
          /\ b \in SubtaskSet(a) /\ a \in SubtaskSet(b)
          /\ tid[a] # tid[b]
          /\ \E i, j \in 1..Len(last.run.stack) :
                last.run.stack[i] = a /\ last.run.stack[j] = b

\* the tasks of a list
Entries(tasks) == {tasks[k] : k \in 1..Len(tasks)}

\* some task of the set E has the id of o
IdTaken(E, o) == \E e \in E : tid[e] = tid[o]

\* C29 (as claimed): a successful add_tasks leaves every task reachable
\* through subtasks from the passed tasks registered, except the tasks
\* whose id is the id of a task that was kept
C29_RegistersReachable ==
    Added =>
        \A o \in ReachableFrom(Entries(last.batch)) :
            o \in Entries(tm_tasks) \/ IdTaken(Entries(tm_tasks), o)

\* C29 (amended): add_tasks raises exactly when a passed task's id is a
\* key of task_map, whatever the ids of the tasks below the passed ones.
\* Otherwise it sorts the old list followed by the passed tasks: the first
\* task of that list is kept; each task of that list and each subtask of a
\* task that is kept is kept too, unless a task with the same id is kept,
\* and then it is dropped without an error; nothing else is in the new
\* list, so the tasks below a dropped task are not registered through it.
C29_RegistersVisited ==
    [][(last'.op = "add_tasks" /\ last'.batch # <<>>) =>
              LET batch == last'.batch
                  listed == Entries(tm_tasks \o batch)
                  kept == Entries(tm_tasks')
                  below == UNION {SubtaskSet(p) : p \in kept}
              IN  /\ last'.result = "AssertionError"
                       <=> \E k \in 1..Len(batch) : tid[batch[k]] \in DOMAIN tm_map
                  /\ last'.result = "ok" =>
                       /\ (tm_tasks \o batch)[1] \in kept
                       /\ \A o \in listed \cup below :
                             o \in kept \/ IdTaken(kept, o)
                       /\ kept \subseteq listed \cup below
                       /\ tm_map' = TaskMap(tm_tasks')]_vars

\* a passed task was dropped for its id, and a subtask of it, with an id
\* that no registered task has, is not registered
C29_Witness ==
    /\ Added
    /\ \E b \in Entries(last.batch) \ Entries(tm_tasks) :
          \E c \in SubtaskSet(b) :
              c \notin Entries(tm_tasks) /\ ~IdTaken(Entries(tm_tasks), c)

====
